---- MODULE Spec2Model ----
(***************************************************************************)
(* Archiver for Google Photos (gparch.py): the archival pipeline of        *)
(* PhotosAccount.  One process (a "run") lists a collection, builds its    *)
(* download entries (process_media_items), runs them on a ThreadPool       *)
(* (download / download_media_item) and inserts a media row for every      *)
(* truthy result.  The file system and the two sqlite tables survive the   *)
(* process; everything else is lost when the process is killed.            *)
(* The variable last is history, not program state: it remembers how the   *)
(* last finished download() of each collection ended.                      *)
(*                                                                         *)
(* Strings are sequences of tokens; a token stands for one or more         *)
(* characters none of which is "." or "/" unless the token is "." or "/".  *)
(*                                                                         *)
(* Spec is the pipeline.  Four more specifications follow single parts of  *)
(* the code through the variable call: SpecList the five listing loops,    *)
(* SpecNames auto_mkdir and auto_filename, SpecItems the for loop of       *)
(* process_media_items, SpecXmp the XMP block of download_media_item.      *)
(***************************************************************************)
EXTENDS Integers, Sequences, FiniteSets, TLC

\* ---------------------------------------------------------------- bounds
MaxKills == 1       \* how often the process may be killed and started again
MaxThreads == 2     \* thread_count handed to the constructor
NChunks == 1        \* chunks of one response body (iter_content)
MaxBatches == 2     \* collections started, over all process lifetimes
MaxPages == 3       \* pages the remote side holds of one listing
MaxPageItems == 1   \* items on one page of a listing
MaxItems == 2       \* items handed to one call of process_media_items
MaxSuffix == 2      \* highest " (n)" name that may exist before a naming call
MaxCalls == 2       \* calls of auto_mkdir and auto_filename that are followed

\* ------------------------------------------------------- python helpers
None == "None"

Max(S) == CHOOSE x \in S : \A y \in S : y <= x

Min2(a, b) == IF a <= b THEN a ELSE b

Max2(a, b) == IF a >= b THEN a ELSE b

\* s.rfind(c): 0-based index of the last occurrence, -1 when there is none
rfind(s, c) ==
    LET I == {i \in 1..Len(s) : s[i] = c}
    IN  IF I = {} THEN -1 ELSE Max(I) - 1

\* s[:e]
SliceTo(s, e) ==
    IF e >= 0 THEN SubSeq(s, 1, Min2(e, Len(s)))
    ELSE SubSeq(s, 1, Max2(Len(s) + e, 0))

\* s[b:]
SliceFrom(s, b) ==
    IF b >= 0 THEN SubSeq(s, b + 1, Len(s))
    ELSE SubSeq(s, Max2(Len(s) + b, 0) + 1, Len(s))

\* str(n) as one token
str(n) == ToString(n)

\* sanitize_filename.sanitize: characters illegal in a file name are removed
Illegal == {"/", "?", ":"}

sanitize(name) == SelectSeq(name, LAMBDA c : c \notin Illegal)

\* ------------------------------------------------------ the remote side
\* mediaItems of the account: id -> the fields process_media_items reads
RemoteItem ==
    [i1 |-> [id |-> "i1", filename |-> <<"IMG", ".", "jpg">>,
             mimeType |-> <<"image", "/", "jpeg">>, baseUrl |-> "u1",
             description |-> None, creationTime |-> "t1"],
     i2 |-> [id |-> "i2", filename |-> <<"IMG", "?", ".", "jpg">>,
             mimeType |-> <<"video", "/", "mp4">>, baseUrl |-> "u2",
             description |-> "d2", creationTime |-> "t2"],
     i4 |-> [id |-> "i4", filename |-> <<"doc">>,
             mimeType |-> <<"application", "/", "pdf">>, baseUrl |-> "u4",
             description |-> None, creationTime |-> "t4"]]

ItemIds == DOMAIN RemoteItem

\* what the listing calls return (every page concatenated)
list_media_items == <<RemoteItem.i1, RemoteItem.i2, RemoteItem.i4>>

search_favorites == <<RemoteItem.i2>>

AlbumIds == {"al1", "al2"}

\* the titles an album may carry; NoTitle: the album has no "title" key
NoTitle == <<>>

\* al1 is the user's own album, renamed between listings; al2 is a shared
\* album of the user's, listed by albums().list and by sharedAlbums().list
Titles == [al1 |-> {<<"Trip", "?">>, NoTitle}, al2 |-> {<<"Trip">>}]

Listings == [al1 |-> {FALSE}, al2 |-> {FALSE, TRUE}]

Collections == {"library", "favorites"} \cup AlbumIds

AlbumItems ==
    [al1 |-> <<RemoteItem.i1>>,
     al2 |-> <<>>]

\* ------------------------------------------------------------ constants
cwd == <<"/", "home", "/">>

base_dir == <<"arch">>

lib_dir == base_dir \o <<"/", "Library">>

albums_dir == base_dir \o <<"/", "Albums">>

shared_albums_dir == base_dir \o <<"/", "Shared Albums">>

favorites_dir == base_dir \o <<"/", "Favorites">>

\* self.thread_count: a pool of fewer threads runs a subset of the schedules
thread_count == MaxThreads

VARIABLES
    dirs,          \* file system: the directories that exist (absolute paths)
    files,         \* file system: absolute path -> content of the file there
    media,         \* table media: sequence of rows <<uuid, path, album_uuid>>
    albums,        \* table albums: rows <<uuid, path, title, is_shared>>
    downloads,     \* self.downloads
    pc,            \* where the main thread is
    cur,           \* the collection being processed
    entries,       \* download(): the entries handed to the pool
    wk,            \* per entry: the state of download_media_item on it
    results,       \* imap_unordered: results ready, in completion order
    kills,         \* how often the process was killed
    batches,       \* how many collections were started
    last,          \* history: per collection, whether a download() of it has
                   \* returned, and the items Failed in the last one that did
    call           \* the function call followed step by step by the
                   \* specifications of the listing and naming functions

vars == <<dirs, files, media, albums, downloads, pc, cur,
          entries, wk, results, kills, batches, last, call>>

disk == <<dirs, files, media, albums>>

\* ---------------------------------------------------------- file system
\* os.path.abspath
abspath(p) == IF p[1] = "/" THEN p ELSE cwd \o p

\* os.path.exists
exists(p) == abspath(p) \in dirs \/ abspath(p) \in DOMAIN files

\* os.path.isdir where os.path.isfile was meant
isfile_dir(p) == abspath(p) \in dirs

\* os.path.isfile
isfile(p) == abspath(p) \in DOMAIN files

\* the content of a file: per chunk position the item whose bytes are there
\* (None: nothing written there). An XMP packet that libxmp puts into the
\* file is not part of this content.
EmptyFile == [data |-> [k \in 1..NChunks |-> None]]

\* the file holds exactly the whole response body of item i
Complete(f, i) == \A k \in 1..NChunks : f.data[k] = i

\* auto_mkdir: the path it settles on (before abspath)
RECURSIVE auto_mkdir_path(_, _)
auto_mkdir_path(path, instance) ==
    LET new_path == IF instance # 0
                    THEN path \o <<" (", str(instance), ")">>
                    ELSE path
    IN  IF ~exists(new_path) THEN new_path
        ELSE auto_mkdir_path(path, instance + 1)

\* safe_mkdir where auto_mkdir was meant: the path itself, used or not
auto_mkdir_reuse(path) == abspath(path)

\* auto_mkdir: the value returned; os.mkdir is the dirs' of the action that
\* uses it (download_single_album_mkdir)
auto_mkdir(path) == abspath(auto_mkdir_path(path, 0))

RECURSIVE auto_filename_from(_, _)
auto_filename_from(path, instance) ==
    LET extension_index == rfind(path, ".")
        new_path == IF instance # 0
                    THEN SliceTo(path, extension_index)
                         \o <<" (", str(instance), ")">>
                         \o SliceFrom(path, extension_index)
                    ELSE path
    IN  IF ~exists(new_path) THEN new_path
        ELSE auto_filename_from(path, instance + 1)

auto_filename(path) == auto_filename_from(path, 0)

\* ---------------------------------------------------------------- index
\* cur.execute(SELECT ...).fetchone(): the first matching row, or None
\* (None is the empty tuple here: both are falsy, and a row never is)
NoRow == <<>>

fetchone(table, uuid) ==
    LET I == {k \in 1..Len(table) : table[k][1] = uuid}
    IN  IF I = {} THEN NoRow ELSE table[CHOOSE k \in I : \A j \in I : k <= j]

\* the SELECT with the wrong column in its WHERE clause
fetchone_by_path(table, uuid) ==
    LET I == {k \in 1..Len(table) : table[k][2] = <<uuid>>}
    IN  IF I = {} THEN NoRow ELSE table[CHOOSE k \in I : \A j \in I : k <= j]

select_media_item_by_path(uuid) == fetchone_by_path(media, uuid)

select_media_item(uuid) == fetchone(media, uuid)

select_album_by_path(uuid) == fetchone_by_path(albums, uuid)

select_album(uuid) == fetchone(albums, uuid)

\* x in s for a string s
Contains(s, x) == \E k \in 1..Len(s) : s[k] = x

\* process_media_items without the lookup: the path is always generated
item_path_generated(item, save_directory) ==
    save_directory \o <<"/">> \o sanitize(item.filename)

\* process_media_items: the path chosen for one item
item_path(item, save_directory) ==
    LET item_db_entry == select_media_item(item.id)
    IN  IF item_db_entry = NoRow
        THEN save_directory \o <<"/">> \o sanitize(item.filename)
        ELSE item_db_entry[2]

\* process_media_items: the entry appended for an image or a video
Entry(item, save_directory, album_uuid, suffix) ==
    [uuid |-> item.id, album_uuid |-> album_uuid,
     url |-> <<item.baseUrl, suffix>>,
     path |-> item_path(item, save_directory),
     description |-> item.description,
     creation_time |-> item.creationTime]

RECURSIVE process_media_items(_, _, _)
process_media_items(media_items, save_directory, album_uuid) ==
    IF media_items = <<>> THEN <<>>
    ELSE LET item == Head(media_items)
             rest == process_media_items(Tail(media_items), save_directory,
                                         album_uuid)
         IN  IF Contains(item.mimeType, "image")
             THEN <<Entry(item, save_directory, album_uuid, "=d")>> \o rest
             ELSE IF Contains(item.mimeType, "video")
             THEN <<Entry(item, save_directory, album_uuid, "=dv")>> \o rest
             ELSE rest

\* ----------------------------------------------------------------- pool
\* what download_media_item returns: a tuple (truthy), False or None
Tuple(uuid, path, album_uuid) ==
    [truthy |-> TRUE, value |-> <<uuid, path, album_uuid>>]

False == [truthy |-> FALSE, value |-> <<"False">>]

NoneRet == [truthy |-> FALSE, value |-> <<"None">>]

\* loaded: the value of self.downloads the thread has read for its += 1
Queued == [pc |-> "queued", path |-> <<>>, written |-> 0,
           outcome |-> None, ret |-> NoneRet, loaded |-> 0]

\* download(): ThreadPool(thread_count).imap_unordered(..., entries)
StartDownload(es) ==
    /\ entries' = es
    /\ wk' = [t \in 1..Len(es) |-> Queued]
    /\ results' = <<>>
    /\ pc' = "download"

Running == {t \in 1..Len(wk) : wk[t].pc \notin {"queued", "returned", "taken"}}

\* the main thread is between collections
NoCollection == [key |-> None]

\* no call of a listing or naming function is being followed
NoCall == [fn |-> None]

\* ------------------------------------------------------------- the state
Init ==
    /\ dirs = {abspath(base_dir), abspath(lib_dir), abspath(albums_dir),
               abspath(shared_albums_dir), abspath(favorites_dir)}
    /\ files = << >>
    /\ media = <<>>
    /\ albums = <<>>
    /\ downloads = 0
    /\ pc = "idle"
    /\ cur = NoCollection
    /\ entries = <<>>
    /\ wk = <<>>
    /\ results = <<>>
    /\ kills = 0
    /\ batches = 0
    /\ last = [c \in Collections |-> [done |-> FALSE, failed |-> {}]]
    /\ call = NoCall

\* --------------------------------------------------------- main thread
download_library ==
    /\ pc = "idle" /\ batches < MaxBatches
    /\ batches' = batches + 1
    /\ cur' = [key |-> "library", path |-> lib_dir]
    /\ StartDownload(process_media_items(list_media_items, lib_dir, None))
    /\ UNCHANGED <<disk, downloads, kills, last, call>>

download_favorites ==
    /\ pc = "idle" /\ batches < MaxBatches
    /\ batches' = batches + 1
    /\ cur' = [key |-> "favorites", path |-> favorites_dir]
    /\ StartDownload(process_media_items(search_favorites, favorites_dir, None))
    /\ UNCHANGED <<disk, downloads, kills, last, call>>

\* download_single_album, the two early returns: the album has no
\* mediaItemsCount, or the first search response is empty
download_single_album_return ==
    /\ pc = "idle" /\ batches < MaxBatches
    /\ \E album \in AlbumIds, hasCount \in BOOLEAN, request \in BOOLEAN :
          ~hasCount \/ ~request
    /\ UNCHANGED vars

\* download_single_album: album["title"] after the default and sanitize
AlbumTitle(title) ==
    sanitize(IF title = NoTitle THEN <<"Unnamed Album">> ELSE title)

\* download_single_album, the album has a row: its path is the save directory
download_single_album_known(album, title, shared) ==
    /\ pc = "idle" /\ batches < MaxBatches
    /\ select_album(album) # NoRow
    /\ batches' = batches + 1
    /\ LET album_path == select_album(album)[2]
       IN  /\ cur' = [key |-> album, path |-> album_path,
                      title |-> AlbumTitle(title), shared |-> shared]
           /\ StartDownload(process_media_items(AlbumItems[album], album_path,
                                                album))
    /\ UNCHANGED <<disk, downloads, kills, last, call>>

\* download_single_album, no row yet: auto_mkdir of the sanitized title
\* (an album without a title gets "Unnamed Album")
download_single_album_mkdir(album, title, shared) ==
    /\ pc = "idle" /\ batches < MaxBatches
    /\ select_album(album) = NoRow
    /\ batches' = batches + 1
    /\ LET root == IF shared THEN shared_albums_dir ELSE albums_dir
           album_path == auto_mkdir(root \o <<"/">> \o AlbumTitle(title))
       IN  /\ dirs' = dirs \cup {album_path}
           /\ cur' = [key |-> album, path |-> album_path,
                      title |-> AlbumTitle(title), shared |-> shared]
    /\ pc' = "insert_album"
    /\ UNCHANGED <<files, media, albums, downloads, entries, wk,
                   results, kills, last, call>>

\* the tasks of a new album started without its row being inserted
insert_album_skipped ==
    /\ pc = "insert_album"
    /\ StartDownload(process_media_items(AlbumItems[cur.key], cur.path,
                                         cur.key))
    /\ UNCHANGED <<disk, downloads, cur, kills, batches, last, call>>

\* insert_album, then process_media_items and download
insert_album ==
    /\ pc = "insert_album"
    /\ albums' = Append(albums, <<cur.key, cur.path, cur.title, cur.shared>>)
    /\ StartDownload(process_media_items(AlbumItems[cur.key], cur.path,
                                         cur.key))
    /\ UNCHANGED <<dirs, files, media, downloads, cur, kills,
                   batches, last, call>>

\* -------------------------------------------------- download_media_item
\* the worker on entry t ends with this outcome and return value
Return(t, outcome, ret) ==
    /\ wk' = [wk EXCEPT ![t].pc = "returned", ![t].outcome = outcome,
                        ![t].ret = ret]
    /\ results' = Append(results, t)

\* what requests.get may do
Responses == {"200", "404", "raise"}

\* a pool thread takes the next entry: os.path.isfile(path), and when there
\* is no file, requests.get(url, stream=True)
isfile_check(t) ==
    /\ pc = "download"
    /\ wk[t].pc = "queued"
    /\ \A u \in 1..(t - 1) : wk[u].pc # "queued"
    /\ Cardinality(Running) < thread_count
    /\ IF isfile(entries[t].path)
       THEN Return(t, "AlreadyPresent", False)
       ELSE \E r \in Responses :
              CASE r = "200" ->
                     /\ wk' = [wk EXCEPT ![t].pc = "auto_filename",
                                         ![t].path = entries[t].path]
                     /\ UNCHANGED results
                [] r = "404" -> Return(t, "Failed", NoneRet)
                [] r = "raise" -> Return(t, "Failed", False)
    /\ UNCHANGED <<disk, downloads, pc, cur, entries, kills,
                   batches, last, call>>

\* path = auto_filename(path)
name_file(t) ==
    /\ pc = "download"
    /\ wk[t].pc = "auto_filename"
    /\ wk' = [wk EXCEPT ![t].pc = "open", ![t].path = auto_filename(wk[t].path)]
    /\ UNCHANGED <<disk, downloads, pc, cur, entries, results,
                   kills, batches, last, call>>

\* write_response: open(path, "wb") creates the file or truncates it
open_file(t) ==
    /\ pc = "download"
    /\ wk[t].pc = "open"
    /\ files' = (abspath(wk[t].path) :> EmptyFile) @@ files
    /\ wk' = [wk EXCEPT ![t].pc = "write"]
    /\ UNCHANGED <<dirs, media, albums, downloads, pc, cur,
                   entries, results, kills, batches, last, call>>

\* write_response: f.write(chunk) at the handle's own offset
write_chunk(t) ==
    /\ pc = "download"
    /\ wk[t].pc = "write"
    /\ LET k == wk[t].written + 1
           p == abspath(wk[t].path)
       IN  /\ files' = [files EXCEPT ![p].data[k] = entries[t].uuid]
           /\ wk' = [wk EXCEPT ![t].written = k,
                               ![t].pc = IF k = NChunks THEN "xmp" ELSE "write"]
    /\ UNCHANGED <<dirs, media, albums, downloads, pc, cur,
                   entries, results, kills, batches, last, call>>

\* the except clause returning the entry's tuple where it must return False
write_raise_returns_tuple(t) ==
    /\ pc = "download"
    /\ wk[t].pc = "write"
    /\ Return(t, "Failed",
              Tuple(entries[t].uuid, wk[t].path, entries[t].album_uuid))
    /\ UNCHANGED <<disk, downloads, pc, cur, entries, kills, batches,
                   last, call>>

\* write_response: iter_content raises part-way; the file stays as it is
write_raise(t) ==
    /\ pc = "download"
    /\ wk[t].pc = "write"
    /\ Return(t, "Failed", False)
    /\ UNCHANGED <<disk, downloads, pc, cur, entries, kills,
                   batches, last, call>>

\* how the XMP block (lines 216-254) may end: the XMP is put into the file;
\* it is written to the sidecar path + ".xmp"; an error is logged and nothing
\* is written; and, after either of the last two, close_file() in the finally
\* clause raises, which leaves the block
XmpEnds == {"put", "sidecar", "error", "sidecar_close_raises",
            "error_close_raises"}

sidecar(path) == path \o <<".", "xmp">>

SidecarFile == [data |-> [k \in 1..NChunks |-> "xmp"]]

xmp_block(t) ==
    /\ pc = "download"
    /\ wk[t].pc = "xmp"
    /\ \E e \in XmpEnds :
             /\ files' =
                  IF e \in {"sidecar", "sidecar_close_raises"}
                  THEN (abspath(sidecar(wk[t].path)) :> SidecarFile) @@ files
                  ELSE files
             /\ IF e \in {"sidecar_close_raises", "error_close_raises"}
                THEN Return(t, "Failed", False)
                ELSE /\ wk' = [wk EXCEPT ![t].pc = "count"]
                     /\ UNCHANGED results
    /\ UNCHANGED <<dirs, media, albums, downloads, pc, cur,
                   entries, kills, batches, last, call>>

\* self.downloads += 1 is not atomic: the thread reads self.downloads ...
downloads_load(t) ==
    /\ pc = "download"
    /\ wk[t].pc = "count"
    /\ wk' = [wk EXCEPT ![t].pc = "store", ![t].loaded = downloads]
    /\ UNCHANGED <<disk, downloads, pc, cur, entries, results, kills,
                   batches, last, call>>

\* the worker thread inserting its own row where it must only return it
count_return_inserts(t) ==
    /\ pc = "download"
    /\ wk[t].pc = "store"
    /\ downloads' = wk[t].loaded + 1
    /\ media' = Append(media, <<entries[t].uuid, wk[t].path,
                                entries[t].album_uuid>>)
    /\ Return(t, "Downloaded", False)
    /\ UNCHANGED <<dirs, files, albums, pc, cur, entries, kills, batches,
                   last, call>>

\* ... and later stores the value it read plus one, whatever other threads
\* have stored meanwhile; return (uuid, path, album_uuid)
count_return(t) ==
    /\ pc = "download"
    /\ wk[t].pc = "store"
    /\ downloads' = wk[t].loaded + 1
    /\ Return(t, "Downloaded",
              Tuple(entries[t].uuid, wk[t].path, entries[t].album_uuid))
    /\ UNCHANGED <<disk, pc, cur, entries, kills, batches, last, call>>

\* ------------------------------------------------------------ download
\* insert_media_item
insert_media_item(uuid, path, album_uuid) ==
    media' = Append(media, <<uuid, path, album_uuid>>)

\* one pass of the for loop over the results: a truthy one is inserted
consume ==
    /\ pc = "download"
    /\ results # <<>>
    /\ LET t == Head(results)
           downloaded_entry == wk[t].ret
       IN  /\ IF downloaded_entry.truthy
              THEN insert_media_item(downloaded_entry.value[1],
                                     downloaded_entry.value[2],
                                     downloaded_entry.value[3])
              ELSE UNCHANGED media
           /\ wk' = [wk EXCEPT ![t].pc = "taken"]
    /\ results' = Tail(results)
    /\ UNCHANGED <<dirs, files, albums, downloads, pc, cur,
                   entries, kills, batches, last, call>>

\* every result was taken: download() returns
BatchDone == pc = "download" /\ \A t \in 1..Len(wk) : wk[t].pc = "taken"

\* download() returning as soon as no result is waiting, tasks still running
download_return_early ==
    /\ pc = "download" /\ results = <<>>
    /\ pc' = "idle"
    /\ entries' = <<>>
    /\ wk' = <<>>
    /\ cur' = NoCollection
    /\ last' = [last EXCEPT ![cur.key] =
                   [done |-> TRUE,
                    failed |-> {entries[t].uuid : t \in
                                  {u \in 1..Len(wk) : wk[u].outcome = "Failed"}}]]
    /\ UNCHANGED <<disk, downloads, results, kills, batches, call>>

download_return ==
    /\ BatchDone
    /\ pc' = "idle"
    /\ entries' = <<>>
    /\ wk' = <<>>
    /\ cur' = NoCollection
    /\ last' = [last EXCEPT ![cur.key] =
                   [done |-> TRUE,
                    failed |-> {entries[t].uuid : t \in
                                  {u \in 1..Len(wk) : wk[u].outcome = "Failed"}}]]
    /\ UNCHANGED <<disk, downloads, results, kills, batches, call>>

\* the process is killed (or ends) and is started again: __init__
Kill ==
    /\ kills < MaxKills
    /\ kills' = kills + 1
    /\ downloads' = 0
    /\ pc' = "idle"
    /\ cur' = NoCollection
    /\ entries' = <<>>
    /\ wk' = <<>>
    /\ results' = <<>>
    /\ UNCHANGED <<disk, batches, last, call>>

Next ==
    \/ download_library
    \/ download_favorites
    \/ download_single_album_return
    \/ \E album \in AlbumIds :
          \E title \in Titles[album], shared \in Listings[album] :
             download_single_album_known(album, title, shared)
    \/ \E album \in AlbumIds :
          \E title \in Titles[album], shared \in Listings[album] :
             download_single_album_mkdir(album, title, shared)
    \/ insert_album
    \/ \E t \in 1..Len(wk) : isfile_check(t)
    \/ \E t \in 1..Len(wk) : name_file(t)
    \/ \E t \in 1..Len(wk) : open_file(t)
    \/ \E t \in 1..Len(wk) : write_chunk(t)
    \/ \E t \in 1..Len(wk) : write_raise(t)
    \/ \E t \in 1..Len(wk) : xmp_block(t)
    \/ \E t \in 1..Len(wk) : downloads_load(t)
    \/ \E t \in 1..Len(wk) : count_return(t)
    \/ consume
    \/ download_return
    \/ Kill

Spec == Init /\ [][Next]_vars

\* =========================================================== the listings
\* The five fetch-all loops, followed page by page: list_media_items,
\* list_albums, list_shared_albums, search_favorites and the search loop of
\* download_single_album.

\* every variable of the archival pipeline
main == <<dirs, files, media, albums, downloads, pc, cur,
          entries, wk, results, kills, batches, last>>

\* __init__: the pipeline's variables after construction
Constructed ==
    /\ dirs = {abspath(base_dir), abspath(lib_dir), abspath(albums_dir),
               abspath(shared_albums_dir), abspath(favorites_dir)}
    /\ files = << >>
    /\ media = <<>>
    /\ albums = <<>>
    /\ downloads = 0
    /\ pc = "idle"
    /\ cur = NoCollection
    /\ entries = <<>>
    /\ wk = <<>>
    /\ results = <<>>
    /\ kills = 0
    /\ batches = 0
    /\ last = [c \in Collections |-> [done |-> FALSE, failed |-> {}]]

ListFns == {"list_media_items", "list_albums", "list_shared_albums",
            "search_favorites", "download_single_album"}

\* a response of the API: whether it has the key of its items ("mediaItems",
\* "albums", "sharedAlbums"), how many items are under it, and whether it has
\* "nextPageToken". A response with neither key is the empty dict.
ListResponses ==
    {r \in [key : BOOLEAN, n : 0..MaxPageItems, next : BOOLEAN] :
        r.n > 0 => r.key}

\* what the remote side holds of a listing: pages 1..n; the token that page k
\* hands out is k + 1, and the last page hands out none
Remotes ==
    UNION {{ps \in [1..n -> ListResponses] : ~ps[n].next} : n \in 1..MaxPages}

\* request[key] of the page at position k: item j of page k is <<k, j>>
PageItems(pages, k) == [j \in 1..pages[k].n |-> <<k, j>>]

\* "not request": the response is the empty dict
Falsy(r) == ~r.key /\ ~r.next

\* the first request of a listing has no page token ("" in a search body)
NoToken == 0

\* .execute(): the page a request with this token gets
execute(pages, token) == IF token = NoToken THEN 1 ELSE token

InitList ==
    /\ Constructed
    /\ \E fn \in ListFns, pages \in Remotes :
          call = [fn |-> fn, pages |-> pages, pc |-> "request", at |-> 0,
                  list |-> <<>>, sent |-> <<>>]

\* the first request, and "if not request: return {}" (download_single_album:
\* return)
first_request ==
    /\ call.pc = "request"
    /\ LET at == execute(call.pages, NoToken)
       IN  call' = [call EXCEPT !.at = at, !.sent = <<NoToken>>,
                                !.pc = IF Falsy(call.pages[at]) THEN "done"
                                       ELSE "while"]
    /\ UNCHANGED main

\* one pass of "while True" in a listing that looks for the key of its items
\* before it reads them
while_pass_checked(request) ==
    /\ call' = [call EXCEPT
                  !.list = IF request.key
                           THEN call.list \o PageItems(call.pages, call.at)
                           ELSE call.list,
                  !.at = IF request.next
                         THEN execute(call.pages, call.at + 1) ELSE call.at,
                  !.sent = IF request.next
                           THEN Append(call.sent, call.at + 1) ELSE call.sent,
                  !.pc = IF request.next THEN "while" ELSE "done"]

\* one pass of "while True": the items under the key are added (in
\* list_shared_albums without looking for the key: a KeyError when it is not
\* there), then the next page is requested with the token, or the loop ends
while_pass ==
    /\ call.pc = "while"
    /\ LET request == call.pages[call.at]
       IN  IF call.fn = "list_shared_albums" /\ ~request.key
           THEN call' = [call EXCEPT !.pc = "KeyError"]
           ELSE while_pass_checked(request)
    /\ UNCHANGED main

NextList ==
    \/ first_request
    \/ while_pass

SpecList == InitList /\ [][NextList]_vars

\* ================================================ auto_mkdir, auto_filename
\* The two naming functions, called on a file system that already holds some
\* of the names they may try.

\* the titles of two albums that sanitize to the same string
MkTitles == {<<"Trip", "?">>, <<"Trip">>}

\* the paths auto_filename is called with: a name with an extension, a name
\* without one, and a name without one in a directory that has a "."; the
\* characters of a name without "." are single tokens, so that path[:-1] and
\* path[-1:] are what they are in the code
NamePaths ==
    {lib_dir \o <<"/", "IMG", ".", "jpg">>,
     lib_dir \o <<"/", "d", "o", "c">>,
     albums_dir \o <<"/", "v", ".", "2", "/", "d", "o", "c">>}

Suffix(n) == <<" (", str(n), ")">>

\* the names in use when a naming function is called: the path itself and its
\* " (n)" names, n up to MaxSuffix, where a well-named copy would be
DirNames(path) == {path} \cup {path \o Suffix(n) : n \in 1..MaxSuffix}

\* the file name part of a path starts after its last "/"
NameStart(path) == rfind(path, "/") + 1

\* the path with " (n)" before the extension of its file name, or at its end
\* when the file name has no extension
Suffixed(path, n) ==
    LET name == SliceFrom(path, NameStart(path))
        at == IF rfind(name, ".") = -1 THEN Len(path)
              ELSE NameStart(path) + rfind(name, ".")
    IN  SliceTo(path, at) \o Suffix(n) \o SliceFrom(path, at)

FileNames(path) == {path} \cup {Suffixed(path, n) : n \in 1..MaxSuffix}

InitNames ==
    /\ \/ \E D \in SUBSET DirNames(albums_dir \o <<"/", "Trip">>) :
             /\ dirs = {abspath(base_dir), abspath(lib_dir), abspath(albums_dir),
                        abspath(shared_albums_dir), abspath(favorites_dir)}
                          \cup {abspath(d) : d \in D}
             /\ files = << >>
       \/ \E path \in NamePaths : \E F \in SUBSET FileNames(path) :
             /\ dirs = {abspath(base_dir), abspath(lib_dir), abspath(albums_dir),
                        abspath(shared_albums_dir), abspath(favorites_dir)}
             /\ files = [f \in {abspath(g) : g \in F} |-> EmptyFile]
    /\ media = <<>>
    /\ albums = <<>>
    /\ downloads = 0
    /\ pc = "idle"
    /\ cur = NoCollection
    /\ entries = <<>>
    /\ wk = <<>>
    /\ results = <<>>
    /\ kills = 0
    /\ batches = 0
    /\ last = [c \in Collections |-> [done |-> FALSE, failed |-> {}]]
    /\ call = [fn |-> "names", n |-> 0, path |-> <<>>, ret |-> <<>>,
               before |-> {}, made |-> <<>>]

\* album_path = auto_mkdir(self.albums_dir + "/" + album["title"]) for an
\* album with this title
call_auto_mkdir(title) ==
    /\ call.fn \in {"names", "auto_mkdir", "auto_filename"}
    /\ call.n < MaxCalls
    /\ LET path == albums_dir \o <<"/">> \o AlbumTitle(title)
           album_path == auto_mkdir(path)
       IN  /\ dirs' = dirs \cup {album_path}
           /\ call' = [fn |-> "auto_mkdir", n |-> call.n + 1, path |-> path,
                       ret |-> album_path,
                       before |-> dirs \cup DOMAIN files,
                       made |-> Append(call.made, album_path)]
    /\ UNCHANGED <<files, media, albums, downloads, pc, cur, entries, wk,
                   results, kills, batches, last>>

\* path = auto_filename(path)
call_auto_filename(path) ==
    /\ call.fn \in {"names", "auto_mkdir", "auto_filename"}
    /\ call.n < MaxCalls
    /\ call' = [fn |-> "auto_filename", n |-> call.n + 1, path |-> path,
                ret |-> auto_filename(path),
                before |-> dirs \cup DOMAIN files,
                made |-> call.made]
    /\ UNCHANGED main

NextNames ==
    \/ \E title \in MkTitles : call_auto_mkdir(title)
    \/ \E path \in NamePaths : call_auto_filename(path)

SpecNames == InitNames /\ [][NextNames]_vars

\* ================================================== process_media_items
\* The for loop of process_media_items, followed item by item, over items
\* that may lack a key.

\* the keys process_media_items reads with item[...]; creationTime stands for
\* item["mediaMetadata"]["creationTime"], which is missing when either key is
RequiredKeys == {"id", "filename", "mimeType", "baseUrl", "creationTime"}

\* the item without one of its keys
Without(item, key) == [k \in DOMAIN item \ {key} |-> item[k]]

\* the items the remote side may hand out: whole, or lacking one key
AnyItems ==
    {RemoteItem[i] : i \in ItemIds}
       \cup {Without(RemoteItem[i], key) : i \in ItemIds, key \in RequiredKeys}

Has(item, key) == key \in DOMAIN item

\* the pass of the for loop over this item raises KeyError: a key is read
\* that the item does not have (lines 316, 318, 330, 335/347, 338/350)
RaisesKeyError(item) ==
    \/ ~Has(item, "id")
    \/ ~Has(item, "filename") /\ select_media_item(item.id) = NoRow
    \/ ~Has(item, "mimeType")
    \/ /\ Contains(item.mimeType, "image") \/ Contains(item.mimeType, "video")
       /\ ~Has(item, "baseUrl") \/ ~Has(item, "creationTime")

InitItems ==
    /\ dirs = {abspath(base_dir), abspath(lib_dir), abspath(albums_dir),
               abspath(shared_albums_dir), abspath(favorites_dir)}
    /\ files = << >>
    /\ media \in {<<>>,
                  <<<<"i1", favorites_dir \o <<"/">>
                              \o sanitize(RemoteItem.i1.filename), None>>>>}
    /\ albums = <<>>
    /\ downloads = 0
    /\ pc = "idle"
    /\ cur = NoCollection
    /\ entries = <<>>
    /\ wk = <<>>
    /\ results = <<>>
    /\ kills = 0
    /\ batches = 0
    /\ last = [c \in Collections |-> [done |-> FALSE, failed |-> {}]]
    /\ \E n \in 1..MaxItems : \E media_items \in [1..n -> AnyItems] :
          call = [fn |-> "process_media_items", media_items |-> media_items,
                  save_directory |-> lib_dir, album_uuid |-> None,
                  pc |-> "for", done |-> 0, media |-> <<>>]

\* one pass of "for item in media_items"
for_item ==
    /\ call.fn = "process_media_items"
    /\ call.pc = "for"
    /\ call.done < Len(call.media_items)
    /\ LET item == call.media_items[call.done + 1]
       IN  IF RaisesKeyError(item)
           THEN call' = [call EXCEPT !.pc = "KeyError"]
           ELSE call' = [call EXCEPT
                           !.done = call.done + 1,
                           !.media = call.media \o
                              process_media_items(<<item>>, call.save_directory,
                                                  call.album_uuid)]
    /\ UNCHANGED main

\* return media
return_media ==
    /\ call.fn = "process_media_items"
    /\ call.pc = "for"
    /\ call.done = Len(call.media_items)
    /\ call' = [call EXCEPT !.pc = "return"]
    /\ UNCHANGED main

NextItems ==
    \/ for_item
    \/ return_media

SpecItems == InitItems /\ [][NextItems]_vars

\* ========================================================= the XMP block
\* Lines 216-254 of download_media_item, followed call by call on the file
\* that write_response has just written. Of libxmp this assumes what its
\* interface says: put_xmp hands the packet to the handle, close_file with
\* XMP_CLOSE_SAFEUPDATE either writes it into the file or raises and leaves
\* the file as it was, and a close_file with nothing handed over, or after a
\* close_file that raised, writes nothing.

\* the entries the block is followed for: one without and one with description
XmpItems == {"i1", "i2"}

\* the file as write_response left it: the whole body of item i
Body(i) == [data |-> [k \in 1..NChunks |-> i]]

\* the file after the packet was written into it
WithXmp(f) == [data |-> f.data, xmp |-> TRUE]

XmpPath(i) == lib_dir \o <<"/">> \o sanitize(RemoteItem[i].filename)

InitXmp ==
    /\ dirs = {abspath(base_dir), abspath(lib_dir), abspath(albums_dir),
               abspath(shared_albums_dir), abspath(favorites_dir)}
    /\ media = <<>>
    /\ albums = <<>>
    /\ downloads = 0
    /\ pc = "idle"
    /\ cur = NoCollection
    /\ entries = <<>>
    /\ wk = <<>>
    /\ results = <<>>
    /\ kills = 0
    /\ batches = 0
    /\ last = [c \in Collections |-> [done |-> FALSE, failed |-> {}]]
    /\ \E i \in XmpItems :
          /\ files = (abspath(XmpPath(i)) :> Body(i))
          /\ call = [fn |-> "xmp_block", uuid |-> i, path |-> XmpPath(i),
                     description |-> RemoteItem[i].description,
                     pc |-> "XMPFiles", xmpfile |-> None, xmp |-> None,
                     saved |-> FALSE, logged |-> {}]

XmpAt(p) == call.fn = "xmp_block" /\ call.pc = p

\* xmpfile = libxmp.XMPFiles(...); xmp = xmpfile.get_xmp(); a failure of
\* either is passed over, and without a packet a new XMPMeta is made
XMPFiles ==
    /\ XmpAt("XMPFiles")
    /\ \E r \in {"XMPFiles_raises", "get_xmp_raises", "no_xmp", "xmp"} :
          call' = [call EXCEPT
                     !.xmpfile = IF r = "XMPFiles_raises" THEN None ELSE "open",
                     !.xmp = IF r = "xmp" THEN "parsed" ELSE "XMPMeta",
                     !.pc = "description"]
    /\ UNCHANGED main

\* if description: xmp.set_property(..., "UserComment", description)
set_description ==
    /\ XmpAt("description")
    /\ IF call.description = None
       THEN call' = [call EXCEPT !.pc = "creation_time"]
       ELSE \E raises \in BOOLEAN :
               call' = [call EXCEPT !.pc = IF raises THEN "except"
                                          ELSE "creation_time"]
    /\ UNCHANGED main

\* fromisoformat and the two set_property calls of the creation time
set_creation_time ==
    /\ XmpAt("creation_time")
    /\ \E r \in {"ok", "fromisoformat_raises", "set_property_raises"} :
          call' = [call EXCEPT !.pc = IF r = "ok" THEN "can_put_xmp"
                                     ELSE "except"]
    /\ UNCHANGED main

\* saved = False; if xmpfile is not None and xmpfile.can_put_xmp(xmp)
can_put_xmp ==
    /\ XmpAt("can_put_xmp")
    /\ IF call.xmpfile = None
       THEN call' = [call EXCEPT !.pc = "not_saved"]
       ELSE \E r \in {"True", "False", "raises"} :
               call' = [call EXCEPT
                          !.pc = IF r = "True" THEN "put_xmp" ELSE "not_saved",
                          !.logged = IF r = "raises" THEN @ \cup {245} ELSE @]
    /\ UNCHANGED main

\* xmpfile.put_xmp(xmp)
put_xmp ==
    /\ XmpAt("put_xmp")
    /\ \E raises \in BOOLEAN :
          call' = [call EXCEPT
                     !.pc = IF raises THEN "not_saved" ELSE "close_file",
                     !.logged = IF raises THEN @ \cup {245} ELSE @]
    /\ UNCHANGED main

\* the in-place write that leaves saved False
close_file_unsaved ==
    /\ XmpAt("close_file")
    /\ files' = [files EXCEPT ![abspath(call.path)] = WithXmp(@)]
    /\ call' = [call EXCEPT !.xmpfile = None, !.pc = "not_saved"]
    /\ UNCHANGED <<dirs, media, albums, downloads, pc, cur, entries, wk,
                   results, kills, batches, last>>

\* xmpfile.close_file(close_flags=XMP_CLOSE_SAFEUPDATE); xmpfile = None;
\* saved = True, or the except clause of line 244
close_file ==
    /\ XmpAt("close_file")
    /\ \E raises \in BOOLEAN :
          IF raises
          THEN /\ call' = [call EXCEPT !.pc = "not_saved",
                                       !.logged = @ \cup {245}]
               /\ UNCHANGED files
          ELSE /\ files' = [files EXCEPT ![abspath(call.path)] = WithXmp(@)]
               /\ call' = [call EXCEPT !.xmpfile = None, !.saved = TRUE,
                                       !.pc = "not_saved"]
    /\ UNCHANGED <<dirs, media, albums, downloads, pc, cur, entries, wk,
                   results, kills, batches, last>>

\* if not saved: the packet is written to path + ".xmp"; open() may raise,
\* and so may write() after open() has made the file
not_saved ==
    /\ XmpAt("not_saved")
    /\ IF call.saved
       THEN /\ call' = [call EXCEPT !.pc = "finally"]
            /\ UNCHANGED files
       ELSE \E r \in {"ok", "open_raises", "write_raises"} :
               /\ files' =
                    CASE r = "ok" ->
                           (abspath(sidecar(call.path)) :> SidecarFile) @@ files
                      [] r = "write_raises" ->
                           (abspath(sidecar(call.path)) :> EmptyFile) @@ files
                      [] r = "open_raises" -> files
               /\ call' = [call EXCEPT !.pc = IF r = "ok" THEN "finally"
                                              ELSE "except"]
    /\ UNCHANGED <<dirs, media, albums, downloads, pc, cur, entries, wk,
                   results, kills, batches, last>>

\* except Exception as e: print(... error updating EXIF data ...)
except_251 ==
    /\ XmpAt("except")
    /\ call' = [call EXCEPT !.pc = "finally", !.logged = @ \cup {251}]
    /\ UNCHANGED main

\* finally: if xmpfile is not None: xmpfile.close_file(), which may raise
finally_close_file ==
    /\ XmpAt("finally")
    /\ IF call.xmpfile = None
       THEN call' = [call EXCEPT !.pc = "end"]
       ELSE \E raises \in BOOLEAN :
               call' = [call EXCEPT !.pc = IF raises THEN "raised" ELSE "end"]
    /\ UNCHANGED main

NextXmp ==
    \/ XMPFiles
    \/ set_description
    \/ set_creation_time
    \/ can_put_xmp
    \/ put_xmp
    \/ close_file
    \/ not_saved
    \/ except_251
    \/ finally_close_file

SpecXmp == InitXmp /\ [][NextXmp]_vars

\* ============================================================== claims
Tasks == 1..Len(wk)

Outcome(t) == wk[t].outcome

StartsWith(s, prefix) ==
    Len(s) >= Len(prefix) /\ SubSeq(s, 1, Len(prefix)) = prefix

\* the file at path p, which exists
FileAt(p) == files[abspath(p)]

\* the last finished download() of collection c had no Failed task
Clean(c) == last[c].done /\ last[c].failed = {}

\* C1 (idempotence): once a collection has been run to the end with no task
\* Failed, no later step taken while that collection is processed again
\* (its album row and directory included) creates or changes a file, a
\* directory, a media row or an album row.
C1_Idempotent ==
    [][\A c \in Collections :
          Clean(c) /\ (cur.key = c \/ cur'.key = c) => UNCHANGED disk]_vars

\* a collection with a Downloaded item was run again after a clean run, to the
\* end
C1_Witness ==
    /\ BatchDone
    /\ Clean(cur.key)
    /\ \E t \in Tasks :
          /\ Outcome(t) = "AlreadyPresent"
          /\ select_media_item(entries[t].uuid) # NoRow

\* C2 (dedup): a task whose Downloaded result the for loop has taken has its
\* row; and a task of an item with a row either is the one whose result
\* became that row, or targets the row's path and ends AlreadyPresent
\* without calling requests.get or touching a file.
C2_Dedup ==
    \A t \in Tasks :
       LET row == select_media_item(entries[t].uuid)
       IN  /\ (wk[t].pc = "taken" /\ Outcome(t) = "Downloaded") => row # NoRow
           /\ row # NoRow =>
                \/ /\ wk[t].pc = "taken"
                   /\ wk[t].ret = Tuple(row[1], row[2], row[3])
                \/ /\ entries[t].path = row[2]
                   /\ wk[t].pc \in {"queued", "returned", "taken"}
                   /\ Outcome(t) \in {None, "AlreadyPresent"}

\* favorites holds an item that the library run recorded: its task targets
\* the library path and is AlreadyPresent
C2_Witness ==
    /\ cur.key = "favorites"
    /\ \E t \in Tasks :
          /\ Outcome(t) = "AlreadyPresent"
          /\ select_media_item(entries[t].uuid) # NoRow
          /\ entries[t].path = select_media_item(entries[t].uuid)[2]
          /\ StartsWith(entries[t].path, lib_dir)

\* C3: every media row's path holds a file that is exactly the whole body of
\* the row's item.
C3_RowsHaveWholeFiles ==
    \A k \in 1..Len(media) :
       /\ isfile(media[k][2])
       /\ Complete(FileAt(media[k][2]), media[k][1])

\* C4: the media table holds at most one row per item id.
C4_OneRowPerItem ==
    \A j, k \in 1..Len(media) : media[j][1] = media[k][1] => j = k

\* an item that has its row was met again in another collection
C4_Witness ==
    /\ BatchDone
    /\ \E t \in Tasks, k \in 1..Len(media) :
          /\ media[k][1] = entries[t].uuid
          /\ media[k][3] # entries[t].album_uuid
    /\ \E t \in Tasks, k \in 1..Len(media) :
          /\ media[k][1] = entries[t].uuid
          /\ ~StartsWith(media[k][2], cur.path)

\* the media rows that results of this batch became
NewRows ==
    {k \in 1..Len(media) :
       \E t \in Tasks : /\ wk[t].pc = "taken"
                        /\ wk[t].ret = Tuple(media[k][1], media[k][2], media[k][3])}

WithOutcome(o) == {t \in Tasks : Outcome(t) = o}

\* the tasks whose fetch raised or returned a non-success status: Failed before
\* the whole body was written
FetchFailed == {t \in Tasks : Outcome(t) = "Failed" /\ wk[t].written < NChunks}

\* the targets of the batch are pairwise different
DistinctTargets ==
    \A t, u \in Tasks : entries[t].path = entries[u].path => t = u

C6_Backfilled ==
    BatchDone =>
       \A t \in WithOutcome("AlreadyPresent") :
          Complete(FileAt(entries[t].path), entries[t].uuid) =>
             select_media_item(entries[t].uuid) # NoRow

\* C7: a task of an item that ended Failed in the last finished run over the
\* same collection is not AlreadyPresent: it is fetched again.
C7_FailedFetchedAgain ==
    pc = "download" =>
       \A t \in Tasks :
          entries[t].uuid \in last[cur.key].failed =>
             Outcome(t) # "AlreadyPresent"

\* worker u has opened the file at wk[u].path
Opened(u) == wk[u].path # <<>> /\ wk[u].pc \notin {"auto_filename", "open"}

\* there was a file at p when the batch started: there is one, and no worker
\* of the batch created it
ExistedAtStart(p) ==
    isfile(p) /\ \A u \in Tasks : ~(Opened(u) /\ abspath(wk[u].path) = abspath(p))

\* C8: the tally of a batch is the one of the schedule in which every worker
\* makes its isfile check before any worker writes: as many AlreadyPresent as
\* entries whose target was a file when the batch started.
C8_OrderIndependent ==
    (BatchDone /\ thread_count >= Len(entries)) =>
       Cardinality(WithOutcome("AlreadyPresent"))
          = Cardinality({t \in Tasks : ExistedAtStart(entries[t].path)})

\* worker t has passed auto_filename
Chosen(t) == wk[t].path # <<>> /\ wk[t].pc # "auto_filename"

\* C9: two workers of a batch with the same target path that both got past the
\* isfile check settle on different paths.
C9_DistinctFiles ==
    \A t, u \in Tasks :
       (t # u /\ entries[t].path = entries[u].path /\ Chosen(t) /\ Chosen(u))
          => wk[t].path # wk[u].path

\* C10: at most one row per album id, each row's directory exists, and a
\* download of an album's items saves into the row's path ...
C10_AlbumInv ==
    /\ \A j, k \in 1..Len(albums) : albums[j][1] = albums[k][1] => j = k
    /\ \A k \in 1..Len(albums) : abspath(albums[k][2]) \in dirs
    /\ (pc = "download" /\ cur.key \in AlbumIds) =>
          /\ select_album(cur.key) # NoRow
          /\ cur.path = select_album(cur.key)[2]

\* ... and once an album has its row, the row stays as it is, and meeting the
\* album again creates no directory and no row
C10_AlbumStep ==
    \A a \in AlbumIds :
       select_album(a) # NoRow =>
          /\ select_album(a)' = select_album(a)
          /\ cur'.key = a => (dirs' = dirs /\ albums' = albums)

\* C10: the album table holds at most one row per album id, created with its
\* directory at the first encounter and used, unchanged, as the save directory
\* of every later encounter, whatever the title or the listing.
C10_Albums == [](C10_AlbumInv) /\ [][C10_AlbumStep]_vars

\* an album met again under another title saves into the recorded directory
C10_Witness ==
    /\ pc = "download"
    /\ cur.key \in AlbumIds
    /\ select_album(cur.key) # NoRow
    /\ select_album(cur.key)[3] # cur.title
    /\ \E t \in Tasks :
          /\ Opened(t)
          /\ StartsWith(wk[t].path, select_album(cur.key)[2])

\* C11: the media table changes only in a step of the for loop of download()
\* that takes the oldest ready result, inserts that result and moves no
\* worker; the albums table changes only while no task exists; and the index
\* is read (a collection is started, or its entries are built) only while no
\* task exists. No step of a worker thread touches either table.
C11_Serialized ==
    [][/\ media' # media =>
             /\ pc = "download" /\ results # <<>>
             /\ wk[Head(results)].pc = "returned"
             /\ wk[Head(results)].ret.truthy
             /\ wk' = [wk EXCEPT ![Head(results)].pc = "taken"]
             /\ media' = Append(media, wk[Head(results)].ret.value)
       /\ albums' # albums => wk = <<>>
       /\ (batches' # batches \/ pc = "insert_album") =>
             (wk = <<>> /\ results = <<>>)]_vars

\* a result was inserted while another worker of the batch was writing its file
C11_Witness ==
    \E t, u \in Tasks :
       /\ wk[t].pc = "taken" /\ Outcome(t) = "Downloaded"
       /\ select_media_item(entries[t].uuid) = wk[t].ret.value
       /\ wk[u].pc = "write"

\* the collection a task belongs to, as its entry tells
CollectionOf(t) ==
    IF entries[t].album_uuid # None THEN {entries[t].album_uuid}
    ELSE {"library", "favorites"}

\* C12: tasks exist only inside download(), and all of them are tasks of the
\* one collection being processed ...
C12_OneCollection ==
    /\ pc # "download" => (wk = <<>> /\ results = <<>>)
    /\ pc = "download" => \A t \in Tasks : cur.key \in CollectionOf(t)

\* ... and download() returns (the process not being killed) only when every
\* task has its outcome, every result was taken and every Downloaded result is
\* a row; the next collection is listed and started only after that
C12_ReturnStep ==
    /\ (pc = "download" /\ pc' # "download" /\ kills' = kills) =>
          /\ results = <<>>
          /\ \A t \in Tasks :
                /\ wk[t].pc = "taken"
                /\ Outcome(t) \in {"Downloaded", "AlreadyPresent", "Failed"}
                /\ Outcome(t) = "Downloaded" =>
                      select_media_item(entries[t].uuid) = wk[t].ret.value
    /\ batches' # batches => (pc = "idle" /\ Running = {})

\* C12: collections are processed strictly one after the other.
C12_Sequential == [](C12_OneCollection) /\ [][C12_ReturnStep]_vars

\* in one process, a task of a second collection runs after the download() of
\* a first collection, which had tasks, has returned
C12_Witness ==
    /\ kills = 0 /\ batches = 2
    /\ \E c \in Collections : last[c].done /\ c # cur.key /\ Len(media) > 0
    /\ \E t \in Tasks : wk[t].pc = "write"

\* the positions of the pages from page k up to and including the first one
\* that has no nextPageToken
RECURSIVE PagesFrom(_, _)
PagesFrom(pages, k) ==
    IF pages[k].next THEN <<k>> \o PagesFrom(pages, k + 1) ELSE <<k>>

\* the items of the pages at positions ks, in that order
RECURSIVE ItemsOf(_, _)
ItemsOf(pages, ks) ==
    IF ks = <<>> THEN <<>>
    ELSE PageItems(pages, Head(ks)) \o ItemsOf(pages, Tail(ks))

\* the listing has ended, by a return or by an exception
ListEnded == call.fn \in ListFns /\ call.pc \notin {"request", "while"}

\* C13 (pagination): each of the five listings ends by returning, what it
\* returns is the items of page 1 up to the first page without nextPageToken,
\* in page order, and the requests it sent are one without a token followed by
\* one with the token of each page that had one (none after an empty first
\* response).
C13_Pagination ==
    ListEnded =>
       LET ks == PagesFrom(call.pages, 1)
       IN  /\ call.pc = "done"
           /\ call.list = ItemsOf(call.pages, ks)
           /\ call.sent = <<NoToken>> \o [i \in 1..(Len(ks) - 1) |-> ks[i] + 1]

\* C19: in each of the five listings, a pass of the loop over a page that has
\* zero items and a nextPageToken adds nothing, raises nothing and requests
\* the next page with that token.
C19_EmptyPageAccepted ==
    [][(/\ call.fn \in ListFns /\ call.pc = "while"
        /\ call.pages[call.at].n = 0 /\ call.pages[call.at].next)
          => /\ call'.pc = "while"
             /\ call'.list = call.list
             /\ call'.at = call.at + 1
             /\ call'.sent = Append(call.sent, call.at + 1)]_vars

\* the item has every key process_media_items needs
WellFormed(item) == \A key \in RequiredKeys : Has(item, key)

\* process_media_items has ended, by its return or by an exception
ItemsEnded ==
    call.fn = "process_media_items" /\ call.pc \in {"return", "KeyError"}

\* C14: process_media_items ends by returning, never by an exception, and
\* what it returns is the entries of the well-formed items of the list: an
\* item that lacks a required key is left out.
C14_MalformedDropped ==
    ItemsEnded =>
       /\ call.pc = "return"
       /\ call.media =
            process_media_items(SelectSeq(call.media_items, WellFormed),
                                call.save_directory, call.album_uuid)

\* C15: a task that has written its whole file and has returned, however its
\* XMP block went, kept the file and is Downloaded, and once its result is
\* taken it has its row.
C15_MetadataNeverFails ==
    \A t \in Tasks :
       (wk[t].written = NChunks /\ wk[t].pc \in {"returned", "taken"}) =>
          /\ isfile(wk[t].path)
          /\ Outcome(t) = "Downloaded"
          /\ wk[t].pc = "taken" => select_media_item(entries[t].uuid) # NoRow

\* the path was in use when the last naming call was made
Used(path) == abspath(path) \in call.before

\* C16: auto_mkdir returns the absolute path of a directory it has created
\* and that did not exist before the call: the path itself if it was unused,
\* otherwise the path with " (n)" for the smallest n >= 1 that was unused;
\* so the directories it made are pairwise different, also for two albums
\* whose titles sanitize to the same string.
C16_AutoMkdir ==
    call.fn = "auto_mkdir" =>
       /\ call.ret \notin call.before
       /\ call.ret \in dirs
       /\ IF ~Used(call.path) THEN call.ret = abspath(call.path)
          ELSE \E n \in 1..(MaxSuffix + MaxCalls) :
                  /\ call.ret = abspath(call.path \o Suffix(n))
                  /\ \A m \in 1..(n - 1) : Used(call.path \o Suffix(m))
       /\ \A j, k \in 1..Len(call.made) :
             call.made[j] = call.made[k] => j = k

\* two albums with titles that sanitize to "Trip" got Albums/Trip and
\* Albums/Trip (1)
C16_Witness ==
    /\ call.fn = "auto_mkdir"
    /\ call.made = <<abspath(albums_dir \o <<"/", "Trip">>),
                     abspath(albums_dir \o <<"/", "Trip">> \o Suffix(1))>>

\* C20: auto_filename returns the path unchanged when nothing exists there,
\* and otherwise the first unused one of the paths that have " (n)",
\* n = 1, 2, ..., before the extension of the file name (at the end of a file
\* name that has no extension).
C20_AutoFilename ==
    call.fn = "auto_filename" =>
       IF ~Used(call.path) THEN call.ret = call.path
       ELSE \E n \in 1..(MaxSuffix + 1) :
               /\ call.ret = Suffixed(call.path, n)
               /\ ~Used(Suffixed(call.path, n))
               /\ \A m \in 1..(n - 1) : Used(Suffixed(call.path, m))

\* C17: at the end of a batch of a process that was never killed and in
\* which no task has Failed so far, every item of the batch has a row whose
\* path holds that item's whole file.
C17_AllArchived ==
    (/\ BatchDone
     /\ kills = 0
     /\ WithOutcome("Failed") = {}
     /\ \A c \in Collections : last[c].failed = {})
       => \A t \in Tasks :
             LET row == select_media_item(entries[t].uuid)
             IN  /\ row # NoRow
                 /\ isfile(row[2])
                 /\ Complete(FileAt(row[2]), entries[t].uuid)

\* C18: while a new album has its directory but not yet its row, no task
\* exists; and every file a task of an album has opened is in the directory
\* of the album's row ...
C18_Inv ==
    /\ pc = "insert_album" =>
          /\ wk = <<>>
          /\ abspath(cur.path) \in dirs
          /\ select_album(cur.key) = NoRow
    /\ (pc = "download" /\ cur.key \in AlbumIds) =>
          \A t \in Tasks :
             Opened(t) =>
                StartsWith(wk[t].path, select_album(cur.key)[2] \o <<"/">>)

\* ... the step that hands the entries of the new album to the pool inserts
\* the row with that directory as its path, all tasks still waiting; and
\* whenever a task of an album starts, the row is there, its path is an
\* existing directory and it is the save directory of the entries
C18_Step ==
    /\ (pc = "insert_album" /\ pc' = "download") =>
          /\ select_album(cur.key)' = <<cur.key, cur.path, cur.title, cur.shared>>
          /\ \A t \in 1..Len(wk') : wk'[t] = Queued
          /\ cur' = cur /\ dirs' = dirs
    /\ (pc = "download" /\ pc' = "download" /\ cur.key \in AlbumIds) =>
          \A t \in Tasks :
             (wk[t].pc = "queued" /\ wk'[t].pc # "queued") =>
                /\ select_album(cur.key) # NoRow
                /\ select_album(cur.key)[2] = cur.path
                /\ abspath(cur.path) \in dirs
                /\ select_media_item(entries[t].uuid) = NoRow =>
                      entries[t].path = cur.path \o <<"/">>
                         \o sanitize(RemoteItem[entries[t].uuid].filename)

\* C18: the directory and the row of a new album are there before any of its
\* tasks starts, and its tasks save into the row's directory.
C18_NewAlbum == [](C18_Inv) /\ [][C18_Step]_vars

\* the first collection of the process is an album, new to the index, and a
\* task of it has opened its file in the album's directory
C18_Witness ==
    /\ pc = "download" /\ cur.key \in AlbumIds
    /\ batches = 1 /\ kills = 0
    /\ \E t \in Tasks :
          /\ Opened(t)
          /\ StartsWith(wk[t].path, select_album(cur.key)[2] \o <<"/">>)

\* the packet is in the media file
InPlace == files[abspath(call.path)] # Body(call.uuid)

\* the files beside the media file
Beside == DOMAIN files \ {abspath(call.path)}

\* the block is over, by reaching its end or by close_file raising in finally
XmpEnded == call.fn = "xmp_block" /\ call.pc \in {"end", "raised"}

\* the embedding went through: no error was logged by the except of line 250
Embedded == XmpEnded /\ 251 \notin call.logged

\* C21: the packet is never both in the media file and in a sidecar, the
\* only file the block may make is <file>.xmp, and an embedding that went
\* through left the packet in exactly one of the two: in the media file, or,
\* when the in-place write was not made (rejected, failed, or no handle), in
\* a whole sidecar <file>.xmp beside a media file whose bytes are unchanged.
C21_ExactlyOne ==
    call.fn = "xmp_block" =>
       /\ ~(InPlace /\ Beside # {})
       /\ Beside \subseteq {abspath(sidecar(call.path))}
       /\ InPlace => files[abspath(call.path)].data = Body(call.uuid).data
       /\ Embedded =>
             /\ InPlace \/ Beside # {}
             /\ InPlace <=> call.saved
             /\ ~InPlace =>
                   /\ files[abspath(call.path)] = Body(call.uuid)
                   /\ Beside = {abspath(sidecar(call.path))}
                   /\ files[abspath(sidecar(call.path))] = SidecarFile

\* put_xmp was accepted, the in-place write failed, and the block ended with
\* the sidecar written
C21_Witness ==
    /\ Embedded
    /\ call.pc = "end"
    /\ call.xmpfile # None
    /\ 245 \in call.logged
    /\ Beside = {abspath(sidecar(call.path))}
    /\ ~InPlace

\* C22: at the end of the first batch of a process, whose counter started at
\* 0, self.downloads is the number of tasks of the batch that are Downloaded
\* (looked at in the batches whose Downloaded tasks each wrote a file of
\* their own).
C22_NoLostUpdate ==
    (/\ BatchDone /\ kills = 0 /\ batches = 1
     /\ \A t, u \in WithOutcome("Downloaded") :
           wk[t].path = wk[u].path => t = u)
       => downloads = Cardinality(WithOutcome("Downloaded"))

====
